---------------------------- MODULE Spec2Model ----------------------------
(***************************************************************************)
(* The slot-finding engine of the AI Scheduling Assistant                  *)
(* (src/AI-Scheduling-Assistant/src/scheduler_logic.py).                   *)
(*                                                                         *)
(* Time is counted in minutes of Asia/Kolkata wall-clock time since the    *)
(* midnight that starts a Monday (day 0): Asia/Kolkata has no daylight     *)
(* saving, so datetime arithmetic is plain integer arithmetic.  The wall   *)
(* clock is the variable `clock`; every datetime.now() of the code reads   *)
(* it.  Seconds and microseconds are not modelled: the clock, the event    *)
(* times and the candidate slots are whole minutes.                        *)
(*                                                                         *)
(* A Python str is a sequence of one-character strings; None and the       *)
(* empty str, which the code only ever tests for truth, are both <<>>.     *)
(* An Optional[Dict] is a sequence of length 0 (None) or 1.                *)
(***************************************************************************)
EXTENDS Integers, Sequences, FiniteSets

VARIABLES
    clock,              \* the wall clock (environment)
    ticks,              \* how often the clock has advanced
    calendars,          \* argument: per participant, the list of events
    duration_minutes,   \* argument
    day_of_week,        \* argument: a str, <<>> for None
    is_urgent,          \* argument
    pc,                 \* position inside find_best_slot
    now,                \* line 94
    search_start,       \* lines 99, 108
    search_end,         \* lines 100, 109
    all_busy_slots,     \* line 114
    merged_busy_slots,  \* line 128
    available_slots,    \* line 131
    idx,                \* position of `for slot in available_slots`, line 163
    score,              \* line 164
    scored_at,          \* the datetime.now(pytz.utc) read of line 54
    best_slot,          \* line 160
    best_score,         \* line 161
    result,             \* the value returned by the current call
    prev_result,        \* the value returned by the previous call, if any
    hpc,                \* position inside your_meeting_assistant
    participants,       \* the request: organizer and attendees (emails)
    text,               \* the request: what the patterns find in the email
    llm,                \* the language model's answer, << >> if the call raises
    upstream,           \* per email: the token file and the calendar provider
    cache,              \* _calendar_cache, for the keys of this request
    calendar_keys,      \* the keys of the dict all_calendars, in order
    fetch_i,            \* position of `for email in all_participants`
    response            \* the dict the handler returns, << >> before it

vars == << clock, ticks, calendars, duration_minutes, day_of_week, is_urgent,
           pc, now, search_start, search_end, all_busy_slots,
           merged_busy_slots, available_slots, idx, score, scored_at,
           best_slot, best_score, result, prev_result, hpc, participants,
           text, llm, upstream, cache, calendar_keys, fetch_i, response >>

handler == << hpc, participants, text, llm, upstream, cache, calendar_keys,
              fetch_i, response >>

args == << calendars, duration_minutes, day_of_week, is_urgent >>

locals == << now, search_start, search_end, all_busy_slots,
             merged_busy_slots, available_slots, idx, score, scored_at,
             best_slot, best_score, result >>

(***************************************************************************)
(* Bounds of the model.                                                    *)
(***************************************************************************)
MaxTicks == 1       \* clock advances per behaviour of Spec
MaxEvents == 3      \* calendar events per request of SpecSlots

(***************************************************************************)
(* Constants of the program.                                               *)
(***************************************************************************)
SlotStep == 15              \* timedelta(minutes=15)
UrgentDays == 2             \* timedelta(days=2)
UrgentHours == 48           \* time_diff_hours < 48
DayStartHour == 9           \* replace(hour=9, ...)
DayEndHour == 18            \* replace(hour=18, ...)
UrgentBase == 1000
UrgentFar == 50
UrgentPerHour == 20
BaseScore == 100
InitialBestScore == -1

MinutesPerHour == 6 * 10
MinutesPerDay == 24 * MinutesPerHour

None == << >>
Some(x) == << x >>

Max(a, b) == IF a >= b THEN a ELSE b

(***************************************************************************)
(* datetime                                                                *)
(***************************************************************************)
\* a timestamp string of a calendar event: day, hour, minute
Stamp(d, h, m) == [d |-> d, h |-> h, m |-> m]

\* dateutil's parser.parse of a timestamp string
parse(t) == t.d * MinutesPerDay + t.h * MinutesPerHour + t.m

\* datetime.weekday(): Monday is 0
weekday(t) == (t \div MinutesPerDay) % 7

\* datetime.hour
hour(t) == (t % MinutesPerDay) \div MinutesPerHour

\* t.replace(hour=h, minute=0, second=0, microsecond=0)
replace_hour(t, h) == (t \div MinutesPerDay) * MinutesPerDay + h * MinutesPerHour

\* t.replace(minute=0, second=0, microsecond=0)
replace_minute(t) == t - (t % MinutesPerHour)

\* Python's int() of a quotient of integers: truncation toward zero
TruncDiv(a, b) == IF a >= 0 THEN a \div b ELSE -((-a) \div b)

(***************************************************************************)
(* str                                                                     *)
(***************************************************************************)
UpperChars ==
    <<"A", "B", "C", "D", "E", "F", "G", "H", "I", "J", "K", "L", "M",
      "N", "O", "P", "Q", "R", "S", "T", "U", "V", "W", "X", "Y", "Z">>

LowerChars ==
    <<"a", "b", "c", "d", "e", "f", "g", "h", "i", "j", "k", "l", "m",
      "n", "o", "p", "q", "r", "s", "t", "u", "v", "w", "x", "y", "z">>

LowerChar(c) ==
    IF \E i \in 1..Len(UpperChars) : UpperChars[i] = c
    THEN LowerChars[CHOOSE i \in 1..Len(UpperChars) : UpperChars[i] = c]
    ELSE c

\* str.lower()
lower(s) == [i \in 1..Len(s) |-> LowerChar(s[i])]

\* the truth value of a str or None
Truthy(s) == s # << >>

(***************************************************************************)
(* get_next_weekday                                                        *)
(***************************************************************************)
\* the dict `weekdays`: the name at position i has the value i - 1
weekdays ==
    << <<"m", "o", "n", "d", "a", "y">>,
       <<"t", "u", "e", "s", "d", "a", "y">>,
       <<"w", "e", "d", "n", "e", "s", "d", "a", "y">>,
       <<"t", "h", "u", "r", "s", "d", "a", "y">>,
       <<"f", "r", "i", "d", "a", "y">>,
       <<"s", "a", "t", "u", "r", "d", "a", "y">>,
       <<"s", "u", "n", "d", "a", "y">> >>

\* weekdays.get(name): None is << >>
weekdays_get(name) ==
    IF \E i \in 1..Len(weekdays) : weekdays[i] = name
    THEN Some((CHOOSE i \in 1..Len(weekdays) : weekdays[i] = name) - 1)
    ELSE None

DaysAheadNoRoll(target_weekday, today) == target_weekday - today

\* lines 22-24
DaysAhead(target_weekday, today) ==
    LET days_ahead == target_weekday - today
    IN  IF days_ahead <= 0 THEN days_ahead + 7 ELSE days_ahead

get_next_weekday(start_date, weekday_name) ==
    IF ~Truthy(weekday_name) THEN start_date
    ELSE LET target_weekday == weekdays_get(lower(weekday_name))
         IN  IF target_weekday = None THEN start_date
             ELSE start_date
                    + DaysAhead(target_weekday[1], weekday(start_date))
                        * MinutesPerDay

(***************************************************************************)
(* merge_busy_slots                                                        *)
(***************************************************************************)
\* list.sort(key=lambda x: x['start']) is stable: x goes behind every
\* element whose start is not greater
RECURSIVE InsertByStart(_, _)
InsertByStart(x, s) ==
    IF s = << >> THEN << x >>
    ELSE IF x.start < s[1].start THEN << x >> \o s
         ELSE << s[1] >> \o InsertByStart(x, Tail(s))

RECURSIVE SortByStart(_)
SortByStart(s) ==
    IF s = << >> THEN << >>
    ELSE InsertByStart(s[Len(s)], SortByStart(SubSeq(s, 1, Len(s) - 1)))

TouchesStrict(current, last_merged) == current.start < last_merged.end

\* line 38
Touches(current, last_merged) == current.start <= last_merged.end

\* lines 36-43: `merged` is the list built so far, `heads` the positions in
\* the sorted list of the dicts it holds (merged holds the list's own dicts)
RECURSIVE MergeScan(_, _, _, _)
MergeScan(sorted, i, merged, heads) ==
    IF i > Len(sorted) THEN [merged |-> merged, heads |-> heads]
    ELSE LET current == sorted[i]
             last_merged == merged[Len(merged)]
         IN  IF Touches(current, last_merged)
             THEN MergeScan(sorted, i + 1,
                      [merged EXCEPT ![Len(merged)].end =
                          Max(last_merged.end, current.end)],
                      heads)
             ELSE MergeScan(sorted, i + 1, Append(merged, current),
                            Append(heads, i))

\* the returned list
merge_busy_slots(busy_slots) ==
    IF busy_slots = << >> THEN << >>
    ELSE LET sorted == SortByStart(busy_slots)
         IN  MergeScan(sorted, 2, << sorted[1] >>, << 1 >>).merged

\* the argument list after the call: sorted in place, and the dicts that
\* went into `merged` carry the extended ends
busy_slots_after_merge(busy_slots) ==
    IF busy_slots = << >> THEN << >>
    ELSE LET sorted == SortByStart(busy_slots)
             r == MergeScan(sorted, 2, << sorted[1] >>, << 1 >>)
         IN  [i \in 1..Len(sorted) |->
                IF \E k \in 1..Len(r.heads) : r.heads[k] = i
                THEN r.merged[CHOOSE k \in 1..Len(r.heads) : r.heads[k] = i]
                ELSE sorted[i]]

(***************************************************************************)
(* score_slot_fast                                                         *)
(***************************************************************************)
\* lines 54-58; `at` is the datetime.now(pytz.utc) of line 54.
\* time_diff_hours is diff / 60, so int(time_diff_hours * 20) is the
\* truncation of diff * 20 / 60
UrgentScore(start_time, at) ==
    LET diff == start_time - at
    IN  IF diff < UrgentHours * MinutesPerHour
        THEN UrgentBase - TruncDiv(diff * UrgentPerHour, MinutesPerHour)
        ELSE UrgentFar

\* lines 61-79
RoutineScore(start_time) ==
    LET h == hour(start_time)
    IN  BaseScore
          + (IF 9 <= h /\ h <= 17 THEN 20 ELSE 0)
          + (IF (10 <= h /\ h <= 11) \/ (14 <= h /\ h <= 16) THEN 10 ELSE 0)
          - (IF 12 <= h /\ h <= 13 THEN 10 ELSE 0)
          - (IF h < 9 \/ h > 17 THEN 30 ELSE 0)

score_slot_fast(slot, urgent, at) ==
    IF urgent THEN UrgentScore(slot.start, at) ELSE RoutineScore(slot.start)

(***************************************************************************)
(* find_best_slot                                                          *)
(***************************************************************************)
\* lines 97-109
SearchWindow(at, urgent, day) ==
    IF urgent
    THEN LET s == replace_minute(at)
         IN  [start |-> s, end |-> s + UrgentDays * MinutesPerDay]
    ELSE LET target_day == IF Truthy(day) THEN get_next_weekday(at, day)
                           ELSE at + MinutesPerDay
         IN  [start |-> replace_hour(target_day, DayStartHour),
              end   |-> replace_hour(target_day, DayEndHour)]

RECURSIVE Flatten(_)
Flatten(lists) ==
    IF lists = << >> THEN << >> ELSE lists[1] \o Flatten(Tail(lists))

OverlapsAnything(start, end, window_start, window_end) == TRUE

\* line 122
Overlaps(start, end, window_start, window_end) ==
    end > window_start /\ start < window_end

\* lines 114-125
RECURSIVE Collect(_, _, _)
Collect(events, window_start, window_end) ==
    IF events = << >> THEN << >>
    ELSE LET start == parse(events[1].StartTime)
             end == parse(events[1].EndTime)
             rest == Collect(Tail(events), window_start, window_end)
         IN  IF Overlaps(start, end, window_start, window_end)
             THEN << [start |-> start, end |-> end] >> \o rest
             ELSE rest

\* lines 139-142 and 148-151: how often the while loop runs.  The loop
\* adds SlotStep to slot_start each time round, so its condition
\* slot_start + duration <= gap_end holds for the first n values of
\* slot_start and for none after them
GapCount(slot_start, gap_end, duration) ==
    IF slot_start + duration <= gap_end
    THEN (gap_end - duration - slot_start) \div SlotStep + 1
    ELSE 0

\* lines 139-142 and 148-151: the slots appended in one gap, and the
\* cursor after it
GapSlots(slot_start, gap_end, duration, slots) ==
    LET n == GapCount(slot_start, gap_end, duration)
    IN  [slot_start |-> slot_start + n * SlotStep,
         slots |-> slots \o
            [k \in 1..n |->
                [start |-> slot_start + (k - 1) * SlotStep,
                 end   |-> slot_start + (k - 1) * SlotStep + duration]]]

StayPut(slot_start, busy_slot) == slot_start

\* line 145
MovePast(slot_start, busy_slot) == Max(slot_start, busy_slot.end)

\* lines 134-145
RECURSIVE BusyLoop(_, _, _, _, _)
BusyLoop(merged, i, slot_start, duration, slots) ==
    IF i > Len(merged) THEN [slot_start |-> slot_start, slots |-> slots]
    ELSE LET g == GapSlots(slot_start, merged[i].start, duration, slots)
         IN  BusyLoop(merged, i + 1, MovePast(g.slot_start, merged[i]),
                      duration, g.slots)

\* lines 131-151
EnumerateSlots(window_start, window_end, merged, duration) ==
    LET b == BusyLoop(merged, 1, window_start, duration, << >>)
    IN  GapSlots(b.slot_start, window_end, duration, b.slots).slots

BetterOrEqual(s, best) == s >= best

\* line 165
Better(s, best) == s > best

----------------------------------------------------------------------------
(***************************************************************************)
(* The requests the model is run on.                                       *)
(***************************************************************************)
Event(d, h1, m1, h2, m2) ==
    [StartTime |-> Stamp(d, h1, m1), EndTime |-> Stamp(d, h2, m2)]

\* the events are on day 0, a Monday, and on day 1, the Tuesday after it
TueTenToEleven      == Event(1, 10, 0, 11, 0)
TueNineToTen        == Event(1, 9, 0, 10, 0)
TueHalfPastNine     == Event(1, 9, 30, 10, 30)
TueBeforeWindow     == Event(1, 8, 0, 9, 20)
TueAfterWindow      == Event(1, 17, 10, 19, 0)
TueWholeDay         == Event(1, 9, 0, 18, 0)
TueEvening          == Event(1, 20, 0, 21, 0)
MonMorning          == Event(0, 8, 30, 9, 10)

DayNone == << >>
Tuesday == <<"T", "u", "e", "s", "d", "a", "y">>
Funday == <<"F", "u", "n", "d", "a", "y">>

\* Monday 08:00 and Monday 08:40
StartClocks == {8 * MinutesPerHour, 8 * MinutesPerHour + 40}

\* how far the clock advances in one step
TickMinutes == MinutesPerHour

Calendars ==
    { << << >> >>,
      << <<TueTenToEleven>>, << >> >>,
      << <<TueHalfPastNine>>, <<TueNineToTen>> >>,
      << <<TueWholeDay>>, <<MonMorning>> >>,
      << <<MonMorning, TueEvening>> >> }

Durations == {-15, 0, 30, 60}

DayNames == {DayNone, Tuesday, Funday}

\* the requests of SpecSlots: every list of at most MaxEvents events of the
\* pool, the first event in the organizer's calendar and the others in the
\* attendee's
EventPool ==
    { TueTenToEleven, TueNineToTen, TueHalfPastNine, TueBeforeWindow,
      TueAfterWindow, TueWholeDay, TueEvening, MonMorning }

EventLists == UNION { [1..k -> EventPool] : k \in 0..MaxEvents }

SplitCalendars(events) ==
    IF events = << >> THEN << << >>, << >> >>
    ELSE << << events[1] >>, Tail(events) >>

SlotDurations == {-15, 0, 20, 30, 9 * MinutesPerHour}

\* the requests of SpecWindow: weekday names in several letter cases, with
\* the weekday each one names, and strings that name no weekday
NamedDays ==
    { << <<"M", "o", "n", "d", "a", "y">>, 0 >>,
      << <<"M", "O", "N", "D", "A", "Y">>, 0 >>,
      << <<"m", "o", "n", "d", "a", "y">>, 0 >>,
      << <<"T", "u", "e", "s", "d", "a", "y">>, 1 >>,
      << <<"t", "u", "e", "s", "d", "a", "y">>, 1 >>,
      << <<"w", "E", "d", "N", "e", "S", "d", "A", "y">>, 2 >>,
      << <<"W", "e", "d", "n", "e", "s", "d", "a", "y">>, 2 >>,
      << <<"T", "h", "u", "r", "s", "d", "a", "y">>, 3 >>,
      << <<"T", "H", "U", "R", "S", "D", "A", "Y">>, 3 >>,
      << <<"F", "r", "i", "d", "a", "y">>, 4 >>,
      << <<"f", "r", "i", "d", "a", "y">>, 4 >>,
      << <<"S", "a", "t", "u", "r", "d", "a", "y">>, 5 >>,
      << <<"s", "A", "T", "U", "R", "D", "A", "Y">>, 5 >>,
      << <<"S", "u", "n", "d", "a", "y">>, 6 >>,
      << <<"S", "U", "N", "D", "A", "Y">>, 6 >> }

OtherNames ==
    { <<"F", "u", "n", "d", "a", "y">>,
      <<"M", "o", "n">>,
      <<"n", "u", "l", "l">>,
      <<"T", "u", "e", "s", " ", "d", "a", "y">>,
      <<"m", "o", "n", "d", "a", "y", "s">> }

WindowDayNames == { p[1] : p \in NamedDays } \cup OtherNames \cup {DayNone}

\* three times of day on each day of two weeks
WindowClocks ==
    { d * MinutesPerDay + m :
        d \in 0..13, m \in {0, 8 * MinutesPerHour + 40, MinutesPerDay - 1} }

ResetLocals ==
    /\ now' = 0
    /\ search_start' = 0
    /\ search_end' = 0
    /\ all_busy_slots' = << >>
    /\ merged_busy_slots' = << >>
    /\ available_slots' = << >>
    /\ idx' = 0
    /\ score' = 0
    /\ scored_at' = 0
    /\ best_slot' = None
    /\ best_score' = 0
    /\ result' = None

InitLocals ==
    /\ pc = "start"
    /\ ticks = 0
    /\ now = 0
    /\ search_start = 0
    /\ search_end = 0
    /\ all_busy_slots = << >>
    /\ merged_busy_slots = << >>
    /\ available_slots = << >>
    /\ idx = 0
    /\ score = 0
    /\ scored_at = 0
    /\ best_slot = None
    /\ best_score = 0
    /\ result = None
    /\ prev_result = None

\* find_best_slot is called directly, not by the request handler
NoHandler ==
    /\ hpc = "direct"
    /\ participants = << >>
    /\ text = << >>
    /\ llm = << >>
    /\ upstream = << >>
    /\ cache = << >>
    /\ calendar_keys = << >>
    /\ fetch_i = 0
    /\ response = None

Init ==
    /\ InitLocals
    /\ NoHandler
    /\ clock \in StartClocks
    /\ calendars \in Calendars
    /\ duration_minutes \in Durations
    /\ day_of_week \in DayNames
    /\ is_urgent \in BOOLEAN
    \* lines 97-100 never read day_of_week
    /\ is_urgent => day_of_week = DayNone

InitSlots ==
    /\ InitLocals
    /\ NoHandler
    /\ clock = 8 * MinutesPerHour + 40
    /\ \E events \in EventLists : calendars = SplitCalendars(events)
    /\ duration_minutes \in SlotDurations
    /\ day_of_week \in {DayNone, Funday}
    /\ is_urgent \in BOOLEAN
    /\ is_urgent => day_of_week = DayNone

InitWindow ==
    /\ InitLocals
    /\ NoHandler
    /\ clock \in WindowClocks
    /\ calendars = << << >> >>
    /\ duration_minutes = 30
    /\ day_of_week \in WindowDayNames
    /\ is_urgent \in BOOLEAN

(***************************************************************************)
(* find_best_slot, step by step                                            *)
(***************************************************************************)
\* lines 93-111
BuildWindow ==
    /\ pc = "start"
    /\ now' = clock
    /\ LET w == SearchWindow(clock, is_urgent, day_of_week)
       IN  /\ search_start' = w.start
           /\ search_end' = w.end
    /\ pc' = "collect"
    /\ UNCHANGED << handler, clock, ticks, args, all_busy_slots, merged_busy_slots,
                    available_slots, idx, score, scored_at, best_slot,
                    best_score, result, prev_result >>

\* lines 113-125
CollectBusy ==
    /\ pc = "collect"
    /\ all_busy_slots' = Collect(Flatten(calendars), search_start, search_end)
    /\ pc' = "merge"
    /\ UNCHANGED << handler, clock, ticks, args, now, search_start, search_end,
                    merged_busy_slots, available_slots, idx, score,
                    scored_at, best_slot, best_score, result, prev_result >>

\* lines 127-128
MergeBusy ==
    /\ pc = "merge"
    /\ merged_busy_slots' = merge_busy_slots(all_busy_slots)
    /\ all_busy_slots' = busy_slots_after_merge(all_busy_slots)
    /\ pc' = "enumerate"
    /\ UNCHANGED << handler, clock, ticks, args, now, search_start, search_end,
                    available_slots, idx, score, scored_at, best_slot,
                    best_score, result, prev_result >>

\* lines 130-161
Enumerate ==
    /\ pc = "enumerate"
    /\ LET slots == EnumerateSlots(search_start, search_end,
                                   merged_busy_slots, duration_minutes)
       IN  /\ available_slots' = slots
           /\ IF slots = << >>
              THEN /\ result' = None
                   /\ pc' = "done"
                   /\ UNCHANGED << idx, best_slot, best_score >>
              ELSE /\ best_slot' = None
                   /\ best_score' = InitialBestScore
                   /\ idx' = 1
                   /\ pc' = "score"
                   /\ UNCHANGED result
    /\ UNCHANGED << handler, clock, ticks, args, now, search_start, search_end,
                    all_busy_slots, merged_busy_slots, score, scored_at,
                    prev_result >>

\* lines 163-167: one iteration of the scoring loop
ScoreStep ==
    /\ pc = "score"
    /\ idx <= Len(available_slots)
    /\ LET slot == available_slots[idx]
           s == score_slot_fast(slot, is_urgent, clock)
       IN  /\ scored_at' = clock
           /\ score' = s
           /\ IF Better(s, best_score)
              THEN /\ best_score' = s
                   /\ best_slot' = Some(slot)
              ELSE UNCHANGED << best_score, best_slot >>
    /\ idx' = idx + 1
    /\ UNCHANGED << handler, clock, ticks, args, pc, now, search_start, search_end,
                    all_busy_slots, merged_busy_slots, available_slots,
                    result, prev_result >>

\* lines 169-172
Return ==
    /\ pc = "score"
    /\ idx > Len(available_slots)
    /\ result' = best_slot
    /\ pc' = "done"
    /\ UNCHANGED << handler, clock, ticks, args, now, search_start, search_end,
                    all_busy_slots, merged_busy_slots, available_slots, idx,
                    score, scored_at, best_slot, best_score, prev_result >>

\* the same request is made once more: a second call of find_best_slot
\* with the arguments of the first
CallAgain ==
    /\ pc = "done"
    /\ prev_result = None
    /\ prev_result' = Some(result)
    /\ pc' = "start"
    /\ ResetLocals
    /\ UNCHANGED << handler, clock, ticks, args >>

\* time passes
Tick ==
    /\ ticks < MaxTicks
    /\ clock' = clock + TickMinutes
    /\ ticks' = ticks + 1
    /\ UNCHANGED << handler, args, pc, locals, prev_result >>

Next ==
    \/ BuildWindow
    \/ CollectBusy
    \/ MergeBusy
    \/ Enumerate
    \/ ScoreStep
    \/ Return
    \/ CallAgain
    \/ Tick

Spec == Init /\ [][Next]_vars

\* the calls up to the enumeration of the candidates, on many calendars
NextSlots ==
    \/ BuildWindow
    \/ CollectBusy
    \/ MergeBusy
    \/ Enumerate

SpecSlots == InitSlots /\ [][NextSlots]_vars

\* the construction of the search window, on many clocks and weekday names
NextWindow == BuildWindow

SpecWindow == InitWindow /\ [][NextWindow]_vars


----------------------------------------------------------------------------
(***************************************************************************)
(* The request handler your_meeting_assistant (main.py) and its            *)
(* collaborators parse_meeting_request (src/parser_agent.py) and           *)
(* get_calendar_events (src/calendar_client.py).                           *)
(***************************************************************************)
DefaultDuration == 30       \* duration_mins = 30  # default

\* _cache_timeout = 300 seconds, in minutes
CacheTimeout == 300 \div MinutesPerHour

UpperChar(c) ==
    IF \E i \in 1..Len(LowerChars) : LowerChars[i] = c
    THEN UpperChars[CHOOSE i \in 1..Len(LowerChars) : LowerChars[i] = c]
    ELSE c

\* str.capitalize()
capitalize(s) ==
    [i \in 1..Len(s) |-> IF i = 1 THEN UpperChar(s[i]) ELSE LowerChar(s[i])]

\* parser_agent.py lines 82-89: `found` is the first duration pattern that
\* matches, with the number it captures, or None
duration_of(found) ==
    IF found = None THEN DefaultDuration
    ELSE IF found[1].unit = "hr" THEN found[1].number * MinutesPerHour
         ELSE found[1].number

\* parser_agent.py lines 33-69: `found_day` is the key of the first
\* DAY_PATTERNS entry that matches (<< >> if none), `found_urgent` whether
\* an urgency pattern matches, `answer` the language model's JSON, None if
\* the call or the decoding raises
fast_extract_day_and_urgency(found_day, found_urgent, answer) ==
    LET day0 == IF Truthy(found_day) THEN capitalize(found_day) ELSE << >>
    IN  IF ~Truthy(day0) \/ ~found_urgent
        THEN IF answer = None
             THEN [day_of_week |-> day0, is_urgent |-> found_urgent]
             ELSE [day_of_week |-> IF Truthy(day0) THEN day0
                                   ELSE answer[1].day_of_week,
                   is_urgent |-> found_urgent \/ answer[1].is_urgent]
        ELSE [day_of_week |-> day0, is_urgent |-> found_urgent]

\* main.py lines 18-35: None is << >>
clean_google_event(event) ==
    IF event.start = None \/ event.end = None THEN None
    ELSE Some([StartTime |-> event.start[1], EndTime |-> event.end[1]])

\* main.py line 109
RECURSIVE clean_events(_)
clean_events(raw_events) ==
    IF raw_events = << >> THEN << >>
    ELSE clean_google_event(raw_events[1]) \o clean_events(Tail(raw_events))

\* calendar_client.py lines 22-64: the list returned and the cache after
\* the call.  `source` is what stands behind the email: whether a token
\* file exists for it, whether the provider call raises, and the events of
\* the calendar
get_calendar_events(email, current_time, source, entries) ==
    IF /\ entries[email] # None
       /\ current_time - entries[email][1].timestamp < CacheTimeout
    THEN [returned |-> entries[email][1].data, cache |-> entries]
    ELSE IF ~source.token
         THEN [returned |-> << >>, cache |-> entries]
         ELSE IF source.raises
              THEN [returned |-> << >>, cache |-> entries]
              ELSE [returned |-> source.events,
                    cache |-> [entries EXCEPT ![email] =
                                 Some([data |-> source.events,
                                       timestamp |-> current_time])]]

\* all_calendars[email] = cleaned_events: the position of the key
KeyPosition(keys, k) ==
    IF \E i \in 1..Len(keys) : keys[i] = k
    THEN CHOOSE i \in 1..Len(keys) : keys[i] = k
    ELSE Len(keys) + 1

RawEvent(d, h1, m1, h2, m2) ==
    [start |-> Some(Stamp(d, h1, m1)), end |-> Some(Stamp(d, h2, m2))]

\* an event without start and end time
RawNoTimes == [start |-> None, end |-> None]

Emails == {"organizer", "attendee"}

ParticipantLists ==
    { << "organizer", "attendee" >>, << "organizer", "organizer" >> }

CalendarSources ==
    { [token |-> FALSE, raises |-> FALSE,
       events |-> << RawEvent(1, 9, 0, 18, 0) >>],
      [token |-> TRUE, raises |-> TRUE,
       events |-> << RawEvent(1, 9, 0, 18, 0) >>],
      [token |-> TRUE, raises |-> FALSE, events |-> << >>],
      [token |-> TRUE, raises |-> FALSE,
       events |-> << RawEvent(1, 9, 0, 18, 0) >>],
      [token |-> TRUE, raises |-> FALSE,
       events |-> << RawEvent(1, 10, 0, 11, 0), RawNoTimes >>] }

EmailTexts ==
    { [duration |-> None, day |-> << >>, urgent |-> FALSE],
      [duration |-> Some([number |-> 1, unit |-> "hr"]),
       day |-> <<"t", "u", "e", "s", "d", "a", "y">>, urgent |-> FALSE] }

ModelAnswers ==
    { None,
      Some([day_of_week |-> << >>, is_urgent |-> FALSE]),
      Some([day_of_week |-> Tuesday, is_urgent |-> TRUE]) }

InitHandler ==
    /\ hpc = "parse"
    /\ participants \in ParticipantLists
    /\ text \in EmailTexts
    /\ llm \in ModelAnswers
    /\ upstream \in [Emails -> CalendarSources]
    /\ cache = [e \in Emails |-> None]
    /\ calendar_keys = << >>
    /\ fetch_i = 0
    /\ response = None
    /\ clock \in StartClocks
    /\ ticks = 0
    /\ pc = "idle"
    /\ calendars = << >>
    /\ duration_minutes = 0
    /\ day_of_week = << >>
    /\ is_urgent = FALSE
    /\ now = 0
    /\ search_start = 0
    /\ search_end = 0
    /\ all_busy_slots = << >>
    /\ merged_busy_slots = << >>
    /\ available_slots = << >>
    /\ idx = 0
    /\ score = 0
    /\ scored_at = 0
    /\ best_slot = None
    /\ best_score = 0
    /\ result = None
    /\ prev_result = None

\* main.py lines 75-100.  parse_meeting_request returns no "error" key, so
\* line 86 is never reached
ParseRequest ==
    /\ hpc = "parse"
    /\ LET parsed == fast_extract_day_and_urgency(text.day, text.urgent, llm)
       IN  /\ duration_minutes' = duration_of(text.duration)
           /\ day_of_week' = parsed.day_of_week
           /\ is_urgent' = parsed.is_urgent
    /\ fetch_i' = 1
    /\ hpc' = "fetch"
    /\ UNCHANGED << clock, ticks, calendars, pc, locals, prev_result,
                    participants, text, llm, upstream, cache, calendar_keys,
                    response >>

\* main.py lines 103-110: one iteration of the fetch loop
FetchCalendar ==
    /\ hpc = "fetch"
    /\ fetch_i <= Len(participants)
    /\ LET email == participants[fetch_i]
           got == get_calendar_events(email, clock, upstream[email], cache)
           cleaned_events == clean_events(got.returned)
           at == KeyPosition(calendar_keys, email)
       IN  /\ cache' = got.cache
           /\ calendar_keys' =
                 [i \in 1..Max(at, Len(calendar_keys)) |->
                     IF i = at THEN email ELSE calendar_keys[i]]
           /\ calendars' =
                 [i \in 1..Max(at, Len(calendars)) |->
                     IF i = at THEN cleaned_events ELSE calendars[i]]
    /\ fetch_i' = fetch_i + 1
    /\ UNCHANGED << clock, ticks, duration_minutes, day_of_week, is_urgent,
                    pc, locals, prev_result, hpc, participants, text, llm,
                    upstream, response >>

\* main.py lines 117-123
CallFindBestSlot ==
    /\ hpc = "fetch"
    /\ fetch_i > Len(participants)
    /\ pc = "idle"
    /\ pc' = "start"
    /\ hpc' = "schedule"
    /\ UNCHANGED << clock, ticks, args, locals, prev_result, participants,
                    text, llm, upstream, cache, calendar_keys, fetch_i,
                    response >>

\* main.py lines 127-188.  No step above raises, so the handler of line 190
\* is not reached
Respond ==
    /\ hpc = "schedule"
    /\ pc = "done"
    /\ response' =
          IF result = None
          THEN Some([status |-> "Failed - No Available Slots",
                     slot |-> None])
          ELSE Some([status |-> "Successfully Scheduled", slot |-> result])
    /\ hpc' = "responded"
    /\ UNCHANGED << clock, ticks, args, pc, locals, prev_result, participants,
                    text, llm, upstream, cache, calendar_keys, fetch_i >>

NextHandler ==
    \/ ParseRequest
    \/ FetchCalendar
    \/ CallFindBestSlot
    \/ BuildWindow
    \/ CollectBusy
    \/ MergeBusy
    \/ Enumerate
    \/ ScoreStep
    \/ Return
    \/ Respond
    \/ Tick

SpecHandler == InitHandler /\ [][NextHandler]_vars

----------------------------------------------------------------------------
(***************************************************************************)
(* Properties                                                              *)
(***************************************************************************)
\* the candidates have been enumerated
Enumerated == pc \in {"score", "done"}

At(d, h, m) == parse(Stamp(d, h, m))

\* C1: for every duration > 0, no candidate slot of the enumeration
\* overlaps an interval of the merged busy timeline: for every candidate c
\* and merged busy interval b, c.end <= b.start or c.start >= b.end.
NoCandidateOverlapsBusy ==
    (Enumerated /\ duration_minutes > 0) =>
        \A i \in DOMAIN available_slots, j \in DOMAIN merged_busy_slots :
            \/ available_slots[i].end <= merged_busy_slots[j].start
            \/ available_slots[i].start >= merged_busy_slots[j].end

\* a busy interval with a candidate that ends where it starts and a
\* candidate that starts where it ends
CandidatesAroundBusy ==
    /\ Enumerated
    /\ duration_minutes > 0
    /\ \E j \in DOMAIN merged_busy_slots :
        /\ \E i \in DOMAIN available_slots :
              available_slots[i].end = merged_busy_slots[j].start
        /\ \E i \in DOMAIN available_slots :
              available_slots[i].start = merged_busy_slots[j].end

\* C2: every candidate slot is exactly as long as the requested duration
\* and lies inside the search window, also when busy intervals begin before
\* the window or end after it.
CandidatesFitWindow ==
    Enumerated =>
        \A i \in DOMAIN available_slots :
            /\ available_slots[i].end - available_slots[i].start
                  = duration_minutes
            /\ search_start <= available_slots[i].start
            /\ available_slots[i].end <= search_end

\* candidates between a busy interval that begins before the window and one
\* that ends after it
CandidatesBetweenOverhangs ==
    /\ Enumerated
    /\ duration_minutes > 0
    /\ available_slots # << >>
    /\ \E j \in DOMAIN merged_busy_slots :
          merged_busy_slots[j].start < search_start
    /\ \E j \in DOMAIN merged_busy_slots :
          merged_busy_slots[j].end > search_end

\* t lies in one of the half-open intervals [start, end) of the list
Covered(t, intervals) ==
    \E i \in DOMAIN intervals :
        intervals[i].start <= t /\ t < intervals[i].end

Endpoints(intervals) ==
    { intervals[i].start : i \in DOMAIN intervals }
        \cup { intervals[i].end : i \in DOMAIN intervals }

\* `timeline` is the minimal timeline of `intervals`: ascending, consecutive
\* entries apart (end < next start), covering the same time points.  Whether
\* a point is covered changes only at an endpoint of an interval, so the
\* two lists cover the same points if they agree at every endpoint
MinimalTimelineOf(timeline, intervals) ==
    /\ \A i \in DOMAIN timeline : timeline[i].start < timeline[i].end
    /\ \A i \in 1..(Len(timeline) - 1) :
          timeline[i].end < timeline[i + 1].start
    /\ \A t \in Endpoints(timeline) \cup Endpoints(intervals) :
          Covered(t, timeline) <=> Covered(t, intervals)
    /\ (intervals = << >>) => (timeline = << >>)

\* C3: merge_busy_slots returns the minimal timeline of the intervals it is
\* given: sorted by start, entry[i].end < entry[i+1].start (touching
\* intervals are merged), covering exactly the time points of the input;
\* an empty input gives an empty timeline.
MergeGivesMinimalTimeline ==
    [][pc = "merge" =>
          MinimalTimelineOf(merged_busy_slots', all_busy_slots)]_vars

\* [09:30,10:30] and [09:00,10:00], in this order, have been merged into
\* [09:00,10:30]
OverlappingMerged ==
    /\ pc = "enumerate"
    /\ calendars = SplitCalendars(<< TueHalfPastNine, TueNineToTen >>)
    /\ merged_busy_slots
          = << [start |-> At(1, 9, 0), end |-> At(1, 10, 30)] >>

\* the first position of `slots` whose score, taken at time `at`, is the
\* greatest of all
EarliestBest(slots, urgent, at) ==
    CHOOSE k \in DOMAIN slots :
        /\ \A j \in DOMAIN slots :
              score_slot_fast(slots[k], urgent, at)
                  >= score_slot_fast(slots[j], urgent, at)
        /\ \A j \in 1..(k - 1) :
              score_slot_fast(slots[j], urgent, at)
                  < score_slot_fast(slots[k], urgent, at)

RoutineScenario ==
    /\ ~is_urgent
    /\ duration_minutes = 30
    /\ calendars = << << TueTenToEleven >>, << >> >>
    /\ search_start = At(1, 9, 0)
    /\ search_end = At(1, 18, 0)

\* C4: the returned slot is the earliest-starting candidate among those of
\* the greatest score (the score of an urgent candidate being taken with
\* the clock standing still); with one busy interval [10:00,11:00], window
\* [09:00,18:00] and duration 30 the result is 11:00-11:30.
EarliestOfBestWins ==
    (pc = "done" /\ available_slots # << >> /\ (is_urgent => clock = now)) =>
        /\ result = Some(available_slots[
                        EarliestBest(available_slots, is_urgent, now)])
        /\ RoutineScenario =>
              result = Some([start |-> At(1, 11, 0),
                             end   |-> At(1, 11, 30)])

\* the routine scenario: 11:00 has won with score 130 and 14:00, which
\* scores 130 too, was a candidate
RoutineTieResolved ==
    /\ pc = "done"
    /\ RoutineScenario
    /\ best_score = 130
    /\ result = Some([start |-> At(1, 11, 0), end |-> At(1, 11, 30)])
    /\ \E i \in DOMAIN available_slots :
          /\ available_slots[i].start = At(1, 14, 0)
          /\ score_slot_fast(available_slots[i], is_urgent, now) = 130

ClampedUrgentScore(start_time, at) ==
    LET diff == Max(start_time - at, 0)
    IN  IF diff < 48 * MinutesPerHour
        THEN 1000 - ((diff * 20) \div MinutesPerHour)
        ELSE 50

\* C6: the urgent score of a candidate h hours after now is
\* 1000 - floor(20 * h) for h < 48 and 50 otherwise, a negative h counting
\* as 0: a candidate that starts at or before now scores exactly 1000.
\* (Stated of the last candidate scored, for requests of a duration > 0.)
UrgentScoreIsClamped ==
    (is_urgent /\ duration_minutes > 0 /\ Enumerated /\ idx > 1) =>
        score = ClampedUrgentScore(available_slots[idx - 1].start, scored_at)

NameIndex(name) == (CHOOSE p \in NamedDays : p[1] = name)[2]

DateOf(t) == t \div MinutesPerDay

\* C7: for a request that is not urgent and names a weekday, in any letter
\* case, the window is 09:00 to 18:00 of the next date after today that
\* falls on that weekday: 1 to 7 days after today, and 7 days when today
\* is that weekday.
WeekdayWindowIsNextOccurrence ==
    (pc = "collect" /\ ~is_urgent
        /\ day_of_week \in { p[1] : p \in NamedDays }) =>
        LET date == DateOf(search_start)
            ahead == date - DateOf(now)
        IN  /\ search_start = date * MinutesPerDay + 9 * MinutesPerHour
            /\ search_end = date * MinutesPerDay + 18 * MinutesPerHour
            /\ date % 7 = NameIndex(day_of_week)
            /\ 1 <= ahead /\ ahead <= 7
            /\ (DateOf(now) % 7 = NameIndex(day_of_week)) => ahead = 7

\* today is the weekday asked for, written in capitals, and the window is
\* a week ahead
SameWeekdayNextWeek ==
    /\ pc = "collect"
    /\ ~is_urgent
    /\ day_of_week = <<"S", "U", "N", "D", "A", "Y">>
    /\ DateOf(now) = 6
    /\ search_start = 13 * MinutesPerDay + 9 * MinutesPerHour

\* C8: for a request that is not urgent and whose weekday is a non-empty
\* string that names no weekday, the window is the one of a request without
\* weekday: tomorrow 09:00 to 18:00, and start < end.
UnknownWeekdayMeansTomorrow ==
    (pc = "collect" /\ ~is_urgent /\ day_of_week \in OtherNames) =>
        /\ search_start
              = (DateOf(now) + 1) * MinutesPerDay + 9 * MinutesPerHour
        /\ search_end
              = (DateOf(now) + 1) * MinutesPerDay + 18 * MinutesPerHour
        /\ search_start < search_end

\* C9: a call with duration_minutes <= 0 is rejected: the enumeration emits
\* no candidate slot of zero or negative length and no such slot is
\* returned.
NonPositiveDurationRejected ==
    duration_minutes <= 0 =>
        /\ available_slots = << >>
        /\ result = None

\* C10: two calls with the same calendars, duration, weekday and urgency
\* flag return the same slot, whatever the wall clock shows at each call
\* and however it advances during a call.  (Stated of the two calls of a
\* behaviour, which have the same arguments, for a duration > 0.)
SameArgumentsSameSlot ==
    (pc = "done" /\ prev_result # None /\ duration_minutes > 0) =>
        result = prev_result[1]

\* C12: the slot returned for an urgent request never starts earlier than
\* now, whether or not now is on an hour boundary.  (Stated for a duration
\* > 0.)
UrgentSlotNotBeforeNow ==
    (pc = "done" /\ is_urgent /\ duration_minutes > 0 /\ result # None) =>
        result[1].start >= now

\* the fetch of a participant's calendar fails: no token, or the provider
\* raises
FetchFails(email) == ~upstream[email].token \/ upstream[email].raises

\* the language model is asked (a day or the urgency is not found by the
\* patterns) and the call raises
ExtractionFails ==
    (~Truthy(text.day) \/ ~text.urgent) /\ llm = None

\* C11: a failure of an upstream collaborator (no token, provider error,
\* text extraction failure) reaches the response as a failure other than
\* "no slot found": the handler neither schedules a slot nor reports that
\* no slot was found with a participant whose fetch failed counted as free.
\* (Stated of the calendar fetch, for requests whose text extraction does
\* not fail.)
UpstreamFailureSurfaced ==
    (/\ hpc = "responded"
     /\ ~ExtractionFails
     /\ \E i \in DOMAIN participants : FetchFails(participants[i])) =>
        response[1].status \notin
            {"Successfully Scheduled", "Failed - No Available Slots"}

=============================================================================
